---------------------------- MODULE Spec2Model ----------------------------
(***************************************************************************)
(* Model of the Indian stock screener (indian_screener/): the universe     *)
(* fetch of screener/universe.py, the pipeline run_screen of               *)
(* screener/screen.py (per-symbol price download, technical rows,          *)
(* prefilter, fundamentals cap, enrichment, hard filter, scoring, sort)    *)
(* and the scorer _score_buy_row.                                          *)
(*                                                                         *)
(* Numbers.  Every cell of a row is an integer.  Ratios, percentages and   *)
(* thresholds are fixed-point values in tenths (pe 35.0 is 350, a volume   *)
(* multiple of 1.3 is 13, a debt/equity of 0.8 is 8); prices, volumes and  *)
(* the market capitalisation are whole units.  Python's True/False are the *)
(* integers 1/0, as they are in Python.  The two "no value" markers of the *)
(* source, None and float('nan'), are the two integers None and NaN, which *)
(* lie outside every value range; every comparison goes through the        *)
(* operators below, which give them the meaning pandas/Python give them.   *)
(***************************************************************************)
EXTENDS Integers, Sequences, FiniteSets, TLC

VARIABLES
    pc,                 \* position of main(): "universe", "download", "enrich", "done", "raised"
                        \* (and "score", "scored" when the scorer is run on its own)
    error,              \* the exception that ended the run ("none" while running)
    index_name,         \* argument of build_universe
    limit,              \* argument of build_universe (None: no limit)
    attempt,            \* tenacity attempt number of fetch_nifty_constituents
    sleeps,             \* backoff waits taken by the retry policy
    http_requests,      \* GET requests issued for a constituent list
    cfg,                \* ScreenerConfig
    for_buy,            \* argument of run_screen
    symbols,            \* argument of run_screen (result of build_universe)
    hist_all,           \* ticker -> last-row statistics of its price series
    downloads,          \* tickers whose price series was requested, in order
    tech_rows,          \* run_screen's tech_rows
    df,                 \* run_screen's df (rows after the prefilter)
    symbols_for_funda,  \* run_screen's symbols_for_funda
    enriched_rows,      \* run_screen's enriched_rows
    funda_calls,        \* tickers passed to compute_fundamental_snapshot, in order
    promoter_calls,     \* tickers passed to fetch_promoter_shareholding_percent, in order
    out,                \* the DataFrame run_screen returns
    frame,              \* the price frame passed to compute_technical_snapshot
    last                \* the dict compute_technical_snapshot returns

vars == <<pc, error, index_name, limit, attempt, sleeps, http_requests, cfg,
          for_buy, symbols, hist_all, downloads, tech_rows, df,
          symbols_for_funda, enriched_rows, funda_calls, promoter_calls, out,
          frame, last>>

-----------------------------------------------------------------------------
(* Bounds *)

\* Number of constituents in the index list the provider returns.
MaxSymbols == 2

-----------------------------------------------------------------------------
(* No-value markers and the comparisons of Python / pandas *)

\* Python's None (a missing dict value, an optional field that is unset).
None == -1000001

\* float('nan') / np.nan.
NaN == -1000002

\* pandas Series.isna(): None and NaN are both missing.
IsNa(x) == x \in {None, NaN}

\* np.isfinite on a float (never applied to None in the source).
IsFinite(x) == x \notin {None, NaN}

\* bool(x): None, 0, 0.0 and False are falsy; NaN is truthy.
Truthy(x) == x \notin {None, 0}

\* pandas elementwise a <= b, a >= b: False where the cell is missing.
SeriesLe(x, b) == ~IsNa(x) /\ x <= b
SeriesGe(x, b) == ~IsNa(x) /\ x >= b

\* pandas Series.between(lo, hi), inclusive: False where the cell is missing.
Between(x, lo, hi) == ~IsNa(x) /\ lo <= x /\ x <= hi

\* pandas elementwise (cell == True): False for None, NaN and False.
SeriesEqTrue(x) == x = 1

\* Python scalar comparisons on a float cell: any comparison with NaN is False.
PyLe(x, b) == x # NaN /\ x <= b
PyGe(x, b) == x # NaN /\ x >= b

-----------------------------------------------------------------------------
(* Sequence helpers *)

\* [x for x in s if Test(x)], order preserved.
RECURSIVE SelectRows(_, _)
SelectRows(s, keep) ==
    IF s = <<>> THEN <<>>
    ELSE IF keep[1] THEN <<Head(s)>> \o SelectRows(Tail(s), Tail(keep))
         ELSE SelectRows(Tail(s), Tail(keep))

\* Python slice s[:n] for n >= 0.
Prefix(s, n) == SubSeq(s, 1, IF n < Len(s) THEN n ELSE Len(s))

Range(s) == {s[k] : k \in 1..Len(s)}

-----------------------------------------------------------------------------
(* Configuration (screener/config.py), thresholds in tenths *)

\* DEFAULT_CONFIG: the defaults of the option groups of ScreenerConfig.
DEFAULT_CONFIG ==
    [ min_pe |-> 50, max_pe |-> 350, max_pb |-> 60, max_ev_ebitda |-> 200,
      min_revenue_cagr_3y |-> 100, min_eps_cagr_3y |-> 100,
      min_roe |-> 120, min_roce |-> 150, max_debt_to_equity |-> 8,
      min_interest_coverage |-> 30,
      min_promoter_change_qoq_pct_pts |-> 1,
      price_above_200d |-> TRUE, sma50_above_200d |-> TRUE,
      within_pct_52w_high |-> 100, rsi_min |-> 450, rsi_max |-> 700,
      min_volume_multiple_vs_50d |-> 13,
      single_download |-> TRUE, use_yahoo_info_fallback |-> FALSE,
      fundamentals_max_symbols |-> 150 ]

\* NIFTY_CSV_URLS: the index names that have a constituent list.
NIFTY_CSV_URLS == {"NIFTY50", "NIFTY200", "NIFTY500"}

\* stop_after_attempt(4) of the retry policy around fetch_nifty_constituents.
UniverseStopAfterAttempt == 4

-----------------------------------------------------------------------------
(* Indicator engine (screener/technical.py) *)

\* The trailing statistics compute_technical_snapshot reads off the last row
\* of a non-empty price frame; each is a number, or NaN when the series is too
\* short for its window.
StatFields == {"close", "sma50", "sma200", "rsi14", "vol", "vol50", "high_52w", "low_52w"}

\* Series.dropna(): the observations that are not missing, in order.
Dropna(s) == SelectSeq(s, LAMBDA x : ~IsNa(x))

\* Series.tail(n): the last n observations, all of them when there are fewer.
TailRows(s, n) == SubSeq(s, IF Len(s) > n THEN Len(s) - n + 1 ELSE 1, Len(s))

RECURSIVE SeriesSum(_)
SeriesSum(s) == IF s = <<>> THEN 0 ELSE Head(s) + SeriesSum(Tail(s))

\* Series.max() / Series.min() of a non-empty series without missing values.
SeriesMax(s) == CHOOSE x \in Range(s) : \A y \in Range(s) : y <= x
SeriesMin(s) == CHOOSE x \in Range(s) : \A y \in Range(s) : y >= x

\* The last value of series.rolling(window, min_periods).sum(): the sum of the
\* observations present in the trailing window, NaN when fewer than
\* min_periods of them are present (or the series is empty).
RollingSumLast(s, window, min_periods) ==
    LET present == Dropna(TailRows(s, window)) IN
    IF s = <<>> \/ Len(present) < min_periods THEN NaN ELSE SeriesSum(present)

\* The last value of series.rolling(window, min_periods).mean(), in whole
\* units rounded down.
RollingMeanLast(s, window, min_periods) ==
    LET present == Dropna(TailRows(s, window)) IN
    IF s = <<>> \/ Len(present) < min_periods THEN NaN
    ELSE SeriesSum(present) \div Len(present)

\* Mutant of simple_moving_average: the full window is required
\* (min_periods = window).
simple_moving_average_full_window(series, window) ==
    RollingMeanLast(series, window, window)

\* simple_moving_average(series, window).iloc[-1]:
\* rolling(window, min_periods=max(1, window // 2)).mean().
simple_moving_average(series, window) ==
    RollingMeanLast(series, window, IF window \div 2 > 1 THEN window \div 2 ELSE 1)

\* series.diff(): the first delta is missing.
Diff(series) ==
    [i \in 1..Len(series) |-> IF i = 1 THEN NaN ELSE series[i] - series[i - 1]]

\* delta.clip(lower=0) and -1 * delta.clip(upper=0); a missing delta stays missing.
Gains(delta) ==
    [i \in 1..Len(delta) |-> IF IsNa(delta[i]) THEN NaN
                             ELSE IF delta[i] > 0 THEN delta[i] ELSE 0]
Losses(delta) ==
    [i \in 1..Len(delta) |-> IF IsNa(delta[i]) THEN NaN
                             ELSE IF delta[i] < 0 THEN 0 - delta[i] ELSE 0]

\* Mutant of rsi: a zero average loss is not replaced by NaN and the index is
\* clamped to 100.
rsi_clamped(series, period) ==
    LET gain == RollingSumLast(Gains(Diff(series)), period, period)
        loss == RollingSumLast(Losses(Diff(series)), period, period)
    IN  IF IsNa(gain) \/ IsNa(loss) THEN NaN
        ELSE IF loss = 0 THEN 1000
        ELSE (1000 * (loss + gain) - 1000 * loss) \div (loss + gain)

\* rsi(series, period).iloc[-1], in tenths.  avg_gain and avg_loss are kept as
\* the window sums (both means divide by the same period, which cancels in
\* rs); rs = avg_gain / avg_loss.replace(0, NaN) is kept as the exact ratio
\* gain / loss, and 100 - 100 / (1 + rs) is evaluated on it: 1 + rs =
\* (loss + gain) / loss, 100 / (1 + rs) = 100 * loss / (loss + gain).
rsi(series, period) ==
    LET gain == RollingSumLast(Gains(Diff(series)), period, period)
        loss == RollingSumLast(Losses(Diff(series)), period, period)
        avg_loss == IF loss = 0 THEN NaN ELSE loss
    IN  IF IsNa(gain) \/ IsNa(avg_loss) THEN NaN
        ELSE (1000 * (avg_loss + gain) - 1000 * avg_loss) \div (avg_loss + gain)

\* compute_technical_snapshot up to `last = {...}`: the statistics of the last
\* row of a non-empty frame with columns Close, High, Low, Volume.
LastRowStats(f) ==
    LET close == Dropna(f.Close)
        high == Dropna(f.High)
        low == Dropna(f.Low)
        volume == Dropna(f.Volume)
    IN  [ close |-> IF close # <<>> THEN close[Len(close)] ELSE NaN,
          sma50 |-> simple_moving_average(close, 50),
          sma200 |-> simple_moving_average(close, 200),
          rsi14 |-> rsi(close, 14),
          vol |-> IF volume # <<>> THEN volume[Len(volume)] ELSE NaN,
          vol50 |-> RollingMeanLast(volume, 50, 10),
          high_52w |-> IF Len(high) >= 20 THEN SeriesMax(TailRows(high, 252)) ELSE NaN,
          low_52w |-> IF Len(low) >= 20 THEN SeriesMin(TailRows(low, 252)) ELSE NaN ]

\* compute_technical_snapshot, from `last = {...}` on: the derived booleans and
\* the volume multiple (vol / vol50 in tenths).
compute_technical_snapshot(st) ==
    [ close |-> st.close, sma50 |-> st.sma50, sma200 |-> st.sma200,
      rsi14 |-> st.rsi14, vol |-> st.vol, vol50 |-> st.vol50,
      high_52w |-> st.high_52w, low_52w |-> st.low_52w,
      price_above_200d |->
          IF IsFinite(st.close) /\ IsFinite(st.sma200) /\ st.close > st.sma200 THEN 1 ELSE 0,
      sma50_above_200d |->
          IF IsFinite(st.sma50) /\ IsFinite(st.sma200) /\ st.sma50 > st.sma200 THEN 1 ELSE 0,
      volume_mult_vs_50d |->
          IF IsFinite(st.vol) /\ IsFinite(st.vol50) /\ st.vol50 > 0
          THEN (st.vol * 10) \div st.vol50 ELSE NaN ]

\* The keys run_screen gives every technical row (base.setdefault(key, None)).
TechKeys == {"close", "high_52w", "low_52w", "sma50", "sma200", "rsi14", "vol", "vol50",
             "price_above_200d", "sma50_above_200d", "volume_mult_vs_50d"}

\* One pass of run_screen's loop "for yticker in symbols" that builds a
\* technical row: the snapshot when hist_all has a frame for the ticker, every
\* key None otherwise, and within_pct_52w_high = (1 - close/high_52w) * 100
\* (in tenths) when close and high_52w are truthy.
TechRow(yticker, hist) ==
    LET tech == IF yticker \in DOMAIN hist
                THEN compute_technical_snapshot(hist[yticker])
                ELSE [k \in TechKeys |-> None]
        within == IF Truthy(tech.close) /\ Truthy(tech.high_52w)
                  THEN IF tech.close = NaN \/ tech.high_52w = NaN THEN NaN
                       ELSE ((tech.high_52w - tech.close) * 1000) \div tech.high_52w
                  ELSE None
    IN  [ ticker |-> yticker,
          close |-> tech.close, high_52w |-> tech.high_52w, low_52w |-> tech.low_52w,
          sma50 |-> tech.sma50, sma200 |-> tech.sma200, rsi14 |-> tech.rsi14,
          vol |-> tech.vol, vol50 |-> tech.vol50,
          price_above_200d |-> tech.price_above_200d,
          sma50_above_200d |-> tech.sma50_above_200d,
          volume_mult_vs_50d |-> tech.volume_mult_vs_50d,
          within_pct_52w_high |-> within ]

\* Mutant of BuildTechRows: rows are built for the tickers that have a frame
\* only (the loop runs over hist_all instead of symbols).
BuildTechRowsFromHistory(syms, hist) ==
    LET hasFrame(t) == t \in DOMAIN hist
        kept == SelectSeq(syms, hasFrame)
    IN  [k \in 1..Len(kept) |-> TechRow(kept[k], hist)]

\* tech_rows as run_screen builds it: one row per symbol, in the order of symbols.
BuildTechRows(syms, hist) == [k \in 1..Len(syms) |-> TechRow(syms[k], hist)]

-----------------------------------------------------------------------------
(* Fundamentals (screener/fundamentals.py) and promoter holding (screener/nse.py) *)

\* _safe_float: None stays None, a non-finite float becomes None.
_safe_float(value) == IF IsNa(value) THEN None ELSE value

\* compute_fundamental_snapshot on what the market-data provider returned:
\*   y.market_cap, y.pe, y.pb   t.fast_info.get(...) of the three basic ratios
\*   y.statements               TRUE when the annual statements are non-empty
\*   y.net_income, y.eq_last, y.eq_prev   the rows used for ROE (None when the
\*                              row has fewer than two values)
\* use_yahoo_info_fallback is False, so the .info fallback is not taken.
\* ROE = net income / average equity * 100, in tenths.  Every other ratio is
\* read through `fin.loc.get(...)` / `bal.loc.get(...)`; a pandas .loc indexer
\* has no get(), the AttributeError is swallowed by the surrounding
\* try/except, and the field keeps its initial None; with empty statements the
\* guarded block is skipped and the field is None as well.
compute_fundamental_snapshot(y) ==
    LET eqsum == y.eq_last + y.eq_prev
        roe == IF y.statements /\ y.net_income # None /\ y.eq_last # None /\ y.eq_prev # None
                  /\ y.eq_last # 0 /\ y.eq_prev # 0 /\ eqsum # 0
               THEN (y.net_income * 2000) \div eqsum
               ELSE None
    IN  [ market_cap |-> _safe_float(y.market_cap),
          pe |-> _safe_float(y.pe),
          pb |-> _safe_float(y.pb),
          roe |-> roe,
          roce |-> None,
          debt_to_equity |-> None,
          interest_coverage |-> None,
          revenue_cagr_3y |-> None,
          eps_cagr_3y |-> None,
          ev_ebitda |-> None ]

\* The columns of a FundamentalSnapshot.
FundaFields == {"market_cap", "pe", "pb", "roe", "roce", "debt_to_equity",
                "interest_coverage", "revenue_cagr_3y", "eps_cagr_3y", "ev_ebitda"}

\* The columns of a PromoterSnapshot as run_screen names them.
PromoterFields == {"promoter_latest_pct", "promoter_prev_pct", "promoter_change_qoq_pct_pts"}

\* fetch_promoter_shareholding_percent on the exchange's answer
\* (resp.ok: the request and the JSON decoding succeeded; resp.percents: the
\* non-null percentages of the promoter category, oldest first).  The function
\* returns None when the request or the payload fails: every failure is caught
\* inside the function, so the retry policy around it never sees an exception.
\* Python's None result is the snapshot whose latest_percent is None (a real
\* snapshot always has a latest_percent).
fetch_promoter_shareholding_percent(resp) ==
    IF ~resp.ok \/ resp.percents = <<>>
    THEN [ latest_percent |-> None, prev_percent |-> None, change_qoq_pct_pts |-> None ]
    ELSE LET latest == resp.percents[Len(resp.percents)]
             prev == IF Len(resp.percents) >= 2
                     THEN resp.percents[Len(resp.percents) - 1] ELSE None
         IN  [ latest_percent |-> latest,
               prev_percent |-> prev,
               change_qoq_pct_pts |-> IF prev # None THEN latest - prev ELSE None ]

\* One pass of run_screen's enrichment loop: the technical row of the ticker
\* updated with the fundamental snapshot f and the promoter snapshot prom
\* (prom is None: all three promoter fields None).
EnrichedRow(base, f, prom) ==
    [ k \in DOMAIN base \cup FundaFields \cup PromoterFields |->
        IF k \in FundaFields THEN f[k]
        ELSE IF k = "promoter_latest_pct" THEN prom.latest_percent
        ELSE IF k = "promoter_prev_pct"
             THEN (IF prom.latest_percent = None THEN None ELSE prom.prev_percent)
        ELSE IF k = "promoter_change_qoq_pct_pts"
             THEN (IF prom.latest_percent = None THEN None ELSE prom.change_qoq_pct_pts)
        ELSE base[k] ]

\* tech_map.get(yticker, {"ticker": yticker}): the last technical row of that ticker.
TechMapGet(rows, yticker) ==
    LET ks == {k \in 1..Len(rows) : rows[k].ticker = yticker}
    IN  rows[CHOOSE k \in ks : \A j \in ks : j <= k]

-----------------------------------------------------------------------------
(* Filters, scorer and sort of run_screen (screener/screen.py) *)

\* The prefilter mask of one row ("Prefilter on technicals only if buy screen").
PrefilterMask(row, c) ==
    /\ c.price_above_200d => SeriesEqTrue(row.price_above_200d)
    /\ c.sma50_above_200d => SeriesEqTrue(row.sma50_above_200d)
    /\ SeriesLe(row.within_pct_52w_high, c.within_pct_52w_high) \/ IsNa(row.within_pct_52w_high)
    /\ Between(row.rsi14, c.rsi_min, c.rsi_max) \/ IsNa(row.rsi14)
    /\ SeriesGe(row.volume_mult_vs_50d, c.min_volume_multiple_vs_50d) \/ IsNa(row.volume_mult_vs_50d)

\* Mutant of Prefilter: an off-by-one slice after the mask loses the first
\* retained row (df[mask].iloc[1:]).
PrefilterDropsFirst(rows, c, buy) ==
    LET kept == SelectRows(rows, [k \in 1..Len(rows) |-> PrefilterMask(rows[k], c)])
    IN  IF buy /\ rows # <<>>
        THEN (IF kept = <<>> THEN kept ELSE Tail(kept))
        ELSE rows

\* Mutant of Prefilter: the mask is never applied.
PrefilterSkipped(rows, c, buy) == rows

\* df = df[mask] of the prefilter, skipped in sell mode and on an empty frame.
Prefilter(rows, c, buy) ==
    IF buy /\ rows # <<>>
    THEN SelectRows(rows, [k \in 1..Len(rows) |-> PrefilterMask(rows[k], c)])
    ELSE rows

\* Mutant of SymbolsForFunda: the cap keeps the trailing tickers instead of the
\* leading ones.
SymbolsForFundaTrailing(rows, c) ==
    LET tickers == [k \in 1..Len(rows) |-> rows[k].ticker]
        n == IF c.fundamentals_max_symbols < Len(tickers)
             THEN c.fundamentals_max_symbols ELSE Len(tickers)
    IN  IF c.fundamentals_max_symbols # None
        THEN SubSeq(tickers, Len(tickers) - n + 1, Len(tickers))
        ELSE tickers

\* symbols_for_funda: the tickers of df, cut to fundamentals_max_symbols.
SymbolsForFunda(rows, c) ==
    LET tickers == [k \in 1..Len(rows) |-> rows[k].ticker]
    IN  IF c.fundamentals_max_symbols # None
        THEN Prefix(tickers, c.fundamentals_max_symbols)
        ELSE tickers

\* The columns run_screen expects ("Ensure expected columns").
ExpectedCols == {"market_cap", "pe", "pb", "roe", "roce", "debt_to_equity", "interest_coverage",
                 "revenue_cagr_3y", "eps_cagr_3y", "ev_ebitda",
                 "promoter_change_qoq_pct_pts", "promoter_latest_pct", "promoter_prev_pct",
                 "price_above_200d", "sma50_above_200d", "within_pct_52w_high", "rsi14",
                 "volume_mult_vs_50d"}

\* pd.DataFrame(enriched_rows) if enriched_rows else pd.DataFrame(tech_rows),
\* then every expected column that is missing is added as NaN.
EnsureExpectedColumns(rows) ==
    [ k \in 1..Len(rows) |->
        [ col \in DOMAIN rows[k] \cup ExpectedCols |->
            IF col \in DOMAIN rows[k] THEN rows[k][col] ELSE NaN ] ]

EnrichedOrTech(enriched, tech) ==
    EnsureExpectedColumns(IF enriched # <<>> THEN enriched ELSE tech)

\* Mutant of HardFilterMask: the technical conditions are left to the
\* prefilter and not applied again.
HardFilterMaskNoTechnicals(row, c) ==
    /\ Between(row.pe, c.min_pe, c.max_pe) \/ IsNa(row.pe)
    /\ SeriesLe(row.pb, c.max_pb) \/ IsNa(row.pb)
    /\ c.max_ev_ebitda # None =>
          (SeriesLe(row.ev_ebitda, c.max_ev_ebitda) \/ IsNa(row.ev_ebitda))
    /\ SeriesGe(row.revenue_cagr_3y, c.min_revenue_cagr_3y) \/ IsNa(row.revenue_cagr_3y)
    /\ SeriesGe(row.eps_cagr_3y, c.min_eps_cagr_3y) \/ IsNa(row.eps_cagr_3y)
    /\ SeriesGe(row.roe, c.min_roe) \/ IsNa(row.roe)
    /\ SeriesGe(row.roce, c.min_roce) \/ IsNa(row.roce)
    /\ SeriesLe(row.debt_to_equity, c.max_debt_to_equity) \/ IsNa(row.debt_to_equity)
    /\ SeriesGe(row.interest_coverage, c.min_interest_coverage) \/ IsNa(row.interest_coverage)
    /\ SeriesGe(row.promoter_change_qoq_pct_pts, c.min_promoter_change_qoq_pct_pts)
          \/ IsNa(row.promoter_change_qoq_pct_pts)

\* Mutant of HardFilterMask: the PE test has no upper bound.
HardFilterMaskNoMaxPe(row, c) ==
    /\ SeriesGe(row.pe, c.min_pe) \/ IsNa(row.pe)
    /\ SeriesLe(row.pb, c.max_pb) \/ IsNa(row.pb)
    /\ c.max_ev_ebitda # None =>
          (SeriesLe(row.ev_ebitda, c.max_ev_ebitda) \/ IsNa(row.ev_ebitda))
    /\ SeriesGe(row.revenue_cagr_3y, c.min_revenue_cagr_3y) \/ IsNa(row.revenue_cagr_3y)
    /\ SeriesGe(row.eps_cagr_3y, c.min_eps_cagr_3y) \/ IsNa(row.eps_cagr_3y)
    /\ SeriesGe(row.roe, c.min_roe) \/ IsNa(row.roe)
    /\ SeriesGe(row.roce, c.min_roce) \/ IsNa(row.roce)
    /\ SeriesLe(row.debt_to_equity, c.max_debt_to_equity) \/ IsNa(row.debt_to_equity)
    /\ SeriesGe(row.interest_coverage, c.min_interest_coverage) \/ IsNa(row.interest_coverage)
    /\ SeriesGe(row.promoter_change_qoq_pct_pts, c.min_promoter_change_qoq_pct_pts)
          \/ IsNa(row.promoter_change_qoq_pct_pts)
    /\ c.price_above_200d => SeriesEqTrue(row.price_above_200d)
    /\ c.sma50_above_200d => SeriesEqTrue(row.sma50_above_200d)
    /\ SeriesLe(row.within_pct_52w_high, c.within_pct_52w_high) \/ IsNa(row.within_pct_52w_high)
    /\ Between(row.rsi14, c.rsi_min, c.rsi_max) \/ IsNa(row.rsi14)
    /\ SeriesGe(row.volume_mult_vs_50d, c.min_volume_multiple_vs_50d) \/ IsNa(row.volume_mult_vs_50d)

\* The hard-filter mask of one row ("Apply hard filters for buy").
HardFilterMask(row, c) ==
    /\ Between(row.pe, c.min_pe, c.max_pe) \/ IsNa(row.pe)
    /\ SeriesLe(row.pb, c.max_pb) \/ IsNa(row.pb)
    /\ c.max_ev_ebitda # None =>
          (SeriesLe(row.ev_ebitda, c.max_ev_ebitda) \/ IsNa(row.ev_ebitda))
    /\ SeriesGe(row.revenue_cagr_3y, c.min_revenue_cagr_3y) \/ IsNa(row.revenue_cagr_3y)
    /\ SeriesGe(row.eps_cagr_3y, c.min_eps_cagr_3y) \/ IsNa(row.eps_cagr_3y)
    /\ SeriesGe(row.roe, c.min_roe) \/ IsNa(row.roe)
    /\ SeriesGe(row.roce, c.min_roce) \/ IsNa(row.roce)
    /\ SeriesLe(row.debt_to_equity, c.max_debt_to_equity) \/ IsNa(row.debt_to_equity)
    /\ SeriesGe(row.interest_coverage, c.min_interest_coverage) \/ IsNa(row.interest_coverage)
    /\ SeriesGe(row.promoter_change_qoq_pct_pts, c.min_promoter_change_qoq_pct_pts)
          \/ IsNa(row.promoter_change_qoq_pct_pts)
    /\ c.price_above_200d => SeriesEqTrue(row.price_above_200d)
    /\ c.sma50_above_200d => SeriesEqTrue(row.sma50_above_200d)
    /\ SeriesLe(row.within_pct_52w_high, c.within_pct_52w_high) \/ IsNa(row.within_pct_52w_high)
    /\ Between(row.rsi14, c.rsi_min, c.rsi_max) \/ IsNa(row.rsi14)
    /\ SeriesGe(row.volume_mult_vs_50d, c.min_volume_multiple_vs_50d) \/ IsNa(row.volume_mult_vs_50d)

\* Mutant of HardFilter: the mask is applied in sell mode as well.
HardFilterInSellMode(rows, c, buy) ==
    IF rows # <<>>
    THEN SelectRows(rows, [k \in 1..Len(rows) |-> HardFilterMask(rows[k], c)])
    ELSE rows

\* df = df[mask] of the hard filter, skipped in sell mode and on an empty frame.
HardFilter(rows, c, buy) ==
    IF buy /\ rows # <<>>
    THEN SelectRows(rows, [k \in 1..Len(rows) |-> HardFilterMask(rows[k], c)])
    ELSE rows

\* Mutant of _score_buy_row: the price-to-book comparison is inverted
\* (pb >= max_pb earns the point).
_score_buy_row_pb_inverted(row, c) ==
      (IF Truthy(row.pe) /\ PyGe(row.pe, c.min_pe) /\ PyLe(row.pe, c.max_pe) THEN 10 ELSE 0)
    + (IF Truthy(row.pb) /\ PyGe(row.pb, c.max_pb) THEN 10 ELSE 0)
    + (IF Truthy(row.ev_ebitda) /\ Truthy(c.max_ev_ebitda)
          /\ PyLe(row.ev_ebitda, c.max_ev_ebitda) THEN 10 ELSE 0)
    + (IF Truthy(row.revenue_cagr_3y) /\ PyGe(row.revenue_cagr_3y, c.min_revenue_cagr_3y)
       THEN 10 ELSE 0)
    + (IF Truthy(row.eps_cagr_3y) /\ PyGe(row.eps_cagr_3y, c.min_eps_cagr_3y) THEN 10 ELSE 0)
    + (IF Truthy(row.roe) /\ PyGe(row.roe, c.min_roe) THEN 10 ELSE 0)
    + (IF Truthy(row.roce) /\ PyGe(row.roce, c.min_roce) THEN 10 ELSE 0)
    + (IF row.debt_to_equity # None /\ PyLe(row.debt_to_equity, c.max_debt_to_equity)
       THEN 10 ELSE 0)
    + (IF Truthy(row.interest_coverage) /\ PyGe(row.interest_coverage, c.min_interest_coverage)
       THEN 10 ELSE 0)
    + (IF row.promoter_change_qoq_pct_pts # None
          /\ PyGe(row.promoter_change_qoq_pct_pts, c.min_promoter_change_qoq_pct_pts)
       THEN 10 ELSE 0)
    + (IF Truthy(row.price_above_200d) THEN 10 ELSE 0)
    + (IF Truthy(row.sma50_above_200d) THEN 10 ELSE 0)
    + (IF row.within_pct_52w_high # None
          /\ PyLe(row.within_pct_52w_high, c.within_pct_52w_high) THEN 10 ELSE 0)
    + (IF Truthy(row.rsi14) /\ PyGe(row.rsi14, c.rsi_min) /\ PyLe(row.rsi14, c.rsi_max)
       THEN 5 ELSE 0)
    + (IF Truthy(row.volume_mult_vs_50d)
          /\ PyGe(row.volume_mult_vs_50d, c.min_volume_multiple_vs_50d) THEN 5 ELSE 0)

\* _score_buy_row, in tenths of a point (1.0 is 10, 0.5 is 5).  `row.get(x) and
\* ...` tests the truthiness of the cell; `row.get(x) is not None and ...` only
\* rules out None.
_score_buy_row(row, c) ==
      (IF Truthy(row.pe) /\ PyGe(row.pe, c.min_pe) /\ PyLe(row.pe, c.max_pe) THEN 10 ELSE 0)
    + (IF Truthy(row.pb) /\ PyLe(row.pb, c.max_pb) THEN 10 ELSE 0)
    + (IF Truthy(row.ev_ebitda) /\ Truthy(c.max_ev_ebitda)
          /\ PyLe(row.ev_ebitda, c.max_ev_ebitda) THEN 10 ELSE 0)
    + (IF Truthy(row.revenue_cagr_3y) /\ PyGe(row.revenue_cagr_3y, c.min_revenue_cagr_3y)
       THEN 10 ELSE 0)
    + (IF Truthy(row.eps_cagr_3y) /\ PyGe(row.eps_cagr_3y, c.min_eps_cagr_3y) THEN 10 ELSE 0)
    + (IF Truthy(row.roe) /\ PyGe(row.roe, c.min_roe) THEN 10 ELSE 0)
    + (IF Truthy(row.roce) /\ PyGe(row.roce, c.min_roce) THEN 10 ELSE 0)
    + (IF row.debt_to_equity # None /\ PyLe(row.debt_to_equity, c.max_debt_to_equity)
       THEN 10 ELSE 0)
    + (IF Truthy(row.interest_coverage) /\ PyGe(row.interest_coverage, c.min_interest_coverage)
       THEN 10 ELSE 0)
    + (IF row.promoter_change_qoq_pct_pts # None
          /\ PyGe(row.promoter_change_qoq_pct_pts, c.min_promoter_change_qoq_pct_pts)
       THEN 10 ELSE 0)
    + (IF Truthy(row.price_above_200d) THEN 10 ELSE 0)
    + (IF Truthy(row.sma50_above_200d) THEN 10 ELSE 0)
    + (IF row.within_pct_52w_high # None
          /\ PyLe(row.within_pct_52w_high, c.within_pct_52w_high) THEN 10 ELSE 0)
    + (IF Truthy(row.rsi14) /\ PyGe(row.rsi14, c.rsi_min) /\ PyLe(row.rsi14, c.rsi_max)
       THEN 5 ELSE 0)
    + (IF Truthy(row.volume_mult_vs_50d)
          /\ PyGe(row.volume_mult_vs_50d, c.min_volume_multiple_vs_50d) THEN 5 ELSE 0)

\* df.assign(score=scores): every row gets its score.
AssignScore(rows, c) ==
    [ k \in 1..Len(rows) |->
        [ col \in DOMAIN rows[k] \cup {"score"} |->
            IF col = "score" THEN _score_buy_row(rows[k], c) ELSE rows[k][col] ] ]

\* Mutant of SortsBefore: the market cap is sorted ascending.
SortsBeforeCapAscending(a, b) ==
    \/ a.score > b.score
    \/ /\ a.score = b.score
       /\ ~IsNa(a.market_cap)
       /\ IsNa(b.market_cap) \/ a.market_cap < b.market_cap

\* The order of sort_values(["score", "market_cap"], ascending=[False, False]):
\* a sorts strictly before b.  Missing market caps go last (na_position="last").
SortsBefore(a, b) ==
    \/ a.score > b.score
    \/ /\ a.score = b.score
       /\ ~IsNa(a.market_cap)
       /\ IsNa(b.market_cap) \/ a.market_cap > b.market_cap

\* sort_values: a stable sort by SortsBefore (rows that compare equal keep
\* their order).  Row k goes to the position after the rows that precede it.
SortValues(rows) ==
    LET before(k) == { j \in 1..Len(rows) :
                         \/ SortsBefore(rows[j], rows[k])
                         \/ ~SortsBefore(rows[k], rows[j]) /\ j < k }
        at(p) == CHOOSE k \in 1..Len(rows) : Cardinality(before(k)) = p - 1
    IN  [ p \in 1..Len(rows) |-> rows[at(p)] ]

\* "Score and sort": skipped on an empty frame.
ScoreAndSort(rows, c) ==
    IF rows # <<>> THEN SortValues(AssignScore(rows, c)) ELSE rows

-----------------------------------------------------------------------------
(* Inputs: what the external providers can answer *)

\* The index list the provider serves: MaxSymbols tickers; ticker k stands for
\* the Yahoo ticker of the k-th constituent.
Constituents == [k \in 1..MaxSymbols |-> k]

\* Index names handed to build_universe: one that upper-cases to a supported
\* index, one that is not supported.
IndexNames == {"nifty50", "SENSEX"}

\* str.upper() on the index names.
Upper(name) == IF name = "nifty50" THEN "NIFTY50" ELSE name

\* A long, healthy series: uptrend, 5% below the 52-week high, RSI 60, twice
\* the average volume.
StrongStats ==
    [ close |-> 95, sma50 |-> 90, sma200 |-> 80, rsi14 |-> 600,
      vol |-> 20, vol50 |-> 10, high_52w |-> 100, low_52w |-> 60 ]

\* Non-empty price frames yf.download can return, as last-row statistics.
\* Every ticker can have the strong series or a downtrend (close and sma50
\* below sma200).  The first constituent can also have: sma50 below sma200
\* with the close above it; a young listing of a dozen rows (no sma50, sma200,
\* rsi14 or 52-week range yet); a series 15% below its high with RSI 80 and
\* average volume.
PriceFrames(yticker) ==
    { StrongStats,
      [StrongStats EXCEPT !.sma200 = 99] }
    \cup
    IF yticker = 1
    THEN { [StrongStats EXCEPT !.sma200 = 92],
           [StrongStats EXCEPT !.sma50 = NaN, !.sma200 = NaN, !.rsi14 = NaN,
                               !.high_52w = NaN, !.low_52w = NaN],
           [StrongStats EXCEPT !.close = 85, !.rsi14 = 800, !.vol = 10] }
    ELSE {}

\* Outcomes of one yf.download call: an exception, an empty frame, a frame.
DownloadOutcomes(yticker) ==
    {[kind |-> "raise"], [kind |-> "empty"]}
        \cup {[kind |-> "frame", stats |-> st] : st \in PriceFrames(yticker)}

\* A company with sound ratios: PE 20, PB 3, ROE 20%.
GoodFundamentals ==
    [ market_cap |-> 2000, pe |-> 200, pb |-> 30, statements |-> TRUE,
      net_income |-> 20, eq_last |-> 100, eq_prev |-> 100 ]

\* What the market-data provider can return for a ticker without raising.
\* Every ticker: sound ratios, or nothing at all.  The first constituent
\* also: sound ratios with a smaller market cap; PE 40; a non-finite market
\* cap with PB 0 and ROE 5%.
FundamentalsData(yticker) ==
    { GoodFundamentals,
      [ market_cap |-> None, pe |-> None, pb |-> None, statements |-> FALSE,
        net_income |-> None, eq_last |-> None, eq_prev |-> None ] }
    \cup
    IF yticker = 1
    THEN { [GoodFundamentals EXCEPT !.market_cap = 1000],
           [GoodFundamentals EXCEPT !.pe = 400],
           [GoodFundamentals EXCEPT !.market_cap = NaN, !.pb = 0, !.net_income = 5] }
    ELSE {}

\* What the exchange can answer to the shareholding request.  Every ticker: a
\* promoter stake that rose by 1.0 points.  The first two constituents also: a
\* failure.  The first constituent also: a stake that fell by 1.0 points; a
\* single quarter (no previous one).
PromoterResponses(yticker) ==
    { [ok |-> TRUE, percents |-> <<510, 520>>] }
    \cup
    (IF yticker <= 2 THEN { [ok |-> FALSE, percents |-> <<>>] } ELSE {})
    \cup
    (IF yticker = 1
     THEN { [ok |-> TRUE, percents |-> <<520, 510>>],
            [ok |-> TRUE, percents |-> <<520>>] }
     ELSE {})

\* Configurations of a run: the two technical requirements on or off with the
\* fundamentals cap unset, and both on or both off with a cap below the size
\* of the universe.
Configs ==
    { [DEFAULT_CONFIG EXCEPT !.price_above_200d = p, !.sma50_above_200d = q,
                             !.fundamentals_max_symbols = None] :
        p \in BOOLEAN, q \in BOOLEAN }
    \cup
    { [DEFAULT_CONFIG EXCEPT !.price_above_200d = p, !.sma50_above_200d = p,
                             !.fundamentals_max_symbols = m] :
        p \in BOOLEAN, m \in 0..(MaxSymbols - 1) }

-----------------------------------------------------------------------------
(* The run: main() = build_universe, then run_screen *)

Init ==
    /\ pc = "universe"
    /\ error = "none"
    /\ index_name \in IndexNames
    /\ limit \in {None} \cup 0..(MaxSymbols - 1)
    /\ attempt = 1
    /\ sleeps = 0
    /\ http_requests = 0
    /\ cfg \in Configs
    /\ for_buy \in BOOLEAN
    /\ symbols = <<>>
    /\ hist_all = <<>>
    /\ downloads = <<>>
    /\ tech_rows = <<>>
    /\ df = <<>>
    /\ symbols_for_funda = <<>>
    /\ enriched_rows = <<>>
    /\ funda_calls = <<>>
    /\ promoter_calls = <<>>
    /\ out = <<>>
    /\ frame = <<>>
    /\ last = <<>>

\* The retry policy of fetch_nifty_constituents after a failed attempt: the
\* RetryError once stop_after_attempt is reached, a backoff wait and the next
\* attempt otherwise.
RetryAfterFailure ==
    IF attempt >= UniverseStopAfterAttempt
    THEN /\ pc' = "raised"
         /\ error' = "RetryError"
         /\ UNCHANGED <<attempt, sleeps>>
    ELSE /\ attempt' = attempt + 1
         /\ sleeps' = sleeps + 1
         /\ UNCHANGED <<pc, error>>

\* One attempt of fetch_nifty_constituents with an index name that is not in
\* NIFTY_CSV_URLS: the ValueError is raised inside the retried function.
FetchUnsupportedIndex ==
    /\ pc = "universe"
    /\ Upper(index_name) \notin NIFTY_CSV_URLS
    /\ RetryAfterFailure
    /\ UNCHANGED <<index_name, limit, http_requests, cfg, for_buy, symbols, hist_all,
                   downloads, tech_rows, df, symbols_for_funda, enriched_rows,
                   funda_calls, promoter_calls, out>>
    /\ UNCHANGED <<frame, last>>

\* One attempt of fetch_nifty_constituents whose GET or CSV parsing fails.
FetchConstituentsFails ==
    /\ pc = "universe"
    /\ Upper(index_name) \in NIFTY_CSV_URLS
    /\ http_requests' = http_requests + 1
    /\ RetryAfterFailure
    /\ UNCHANGED <<index_name, limit, cfg, for_buy, symbols, hist_all,
                   downloads, tech_rows, df, symbols_for_funda, enriched_rows,
                   funda_calls, promoter_calls, out>>
    /\ UNCHANGED <<frame, last>>

\* A successful attempt, and the rest of build_universe: the tickers, cut to
\* limit; main() then calls run_screen.
BuildUniverse ==
    /\ pc = "universe"
    /\ Upper(index_name) \in NIFTY_CSV_URLS
    /\ http_requests' = http_requests + 1
    /\ symbols' = IF limit # None THEN Prefix(Constituents, limit) ELSE Constituents
    /\ pc' = "download"
    /\ UNCHANGED <<error, index_name, limit, attempt, sleeps, cfg, for_buy, hist_all,
                   downloads, tech_rows, df, symbols_for_funda, enriched_rows,
                   funda_calls, promoter_calls, out>>
    /\ UNCHANGED <<frame, last>>

\* One pass of _download_history_per_symbol's loop: the frame is kept when the
\* call returns a non-empty frame; an exception or an empty frame leaves
\* hist_all without the ticker.
DownloadHistory ==
    /\ pc = "download"
    /\ Len(downloads) < Len(symbols)
    /\ LET sym == symbols[Len(downloads) + 1] IN
       \E o \in DownloadOutcomes(sym) :
          /\ hist_all' = IF o.kind = "frame" THEN hist_all @@ (sym :> o.stats) ELSE hist_all
          /\ downloads' = Append(downloads, sym)
    /\ UNCHANGED <<pc, error, index_name, limit, attempt, sleeps, http_requests, cfg,
                   for_buy, symbols, tech_rows, df, symbols_for_funda, enriched_rows,
                   funda_calls, promoter_calls, out>>
    /\ UNCHANGED <<frame, last>>

\* run_screen from "Build technical-only rows first" to the fundamentals cap.
TechnicalPhase ==
    /\ pc = "download"
    /\ Len(downloads) = Len(symbols)
    /\ tech_rows' = BuildTechRows(symbols, hist_all)
    /\ df' = Prefilter(tech_rows', cfg, for_buy)
    /\ symbols_for_funda' = SymbolsForFunda(df', cfg)
    /\ pc' = "enrich"
    /\ UNCHANGED <<error, index_name, limit, attempt, sleeps, http_requests, cfg,
                   for_buy, symbols, hist_all, downloads, enriched_rows,
                   funda_calls, promoter_calls, out>>
    /\ UNCHANGED <<frame, last>>

\* One pass of the enrichment loop in which the market-data provider raises
\* where compute_fundamental_snapshot reads t.fast_info outside any try block:
\* the exception leaves compute_fundamental_snapshot and run_screen.
EnrichRaises ==
    /\ pc = "enrich"
    /\ Len(funda_calls) < Len(symbols_for_funda)
    /\ funda_calls' = Append(funda_calls, symbols_for_funda[Len(funda_calls) + 1])
    /\ pc' = "raised"
    /\ error' = "ProviderError"
    /\ UNCHANGED <<index_name, limit, attempt, sleeps, http_requests, cfg, for_buy,
                   symbols, hist_all, downloads, tech_rows, df, symbols_for_funda,
                   enriched_rows, promoter_calls, out>>
    /\ UNCHANGED <<frame, last>>

\* One pass of the enrichment loop: the fundamental snapshot, the promoter
\* snapshot (None on any failure), and the enriched row appended.
Enrich ==
    /\ pc = "enrich"
    /\ Len(funda_calls) < Len(symbols_for_funda)
    /\ LET yticker == symbols_for_funda[Len(funda_calls) + 1] IN
       \E y \in FundamentalsData(yticker), resp \in PromoterResponses(yticker) :
          /\ funda_calls' = Append(funda_calls, yticker)
          /\ promoter_calls' = Append(promoter_calls, yticker)
          /\ enriched_rows' =
                Append(enriched_rows,
                       EnrichedRow(TechMapGet(tech_rows, yticker),
                                   compute_fundamental_snapshot(y),
                                   fetch_promoter_shareholding_percent(resp)))
    /\ UNCHANGED <<pc, error, index_name, limit, attempt, sleeps, http_requests, cfg,
                   for_buy, symbols, hist_all, downloads, tech_rows, df,
                   symbols_for_funda, out>>
    /\ UNCHANGED <<frame, last>>

\* run_screen from `df = pd.DataFrame(enriched_rows) if enriched_rows else ...`
\* to the return: expected columns, hard filter, score, sort.
Finish ==
    /\ pc = "enrich"
    /\ Len(funda_calls) = Len(symbols_for_funda)
    /\ out' = ScoreAndSort(HardFilter(EnrichedOrTech(enriched_rows, tech_rows), cfg, for_buy), cfg)
    /\ pc' = "done"
    /\ UNCHANGED <<error, index_name, limit, attempt, sleeps, http_requests, cfg,
                   for_buy, symbols, hist_all, downloads, tech_rows, df,
                   symbols_for_funda, enriched_rows, funda_calls, promoter_calls>>
    /\ UNCHANGED <<frame, last>>

Next ==
    \/ FetchUnsupportedIndex
    \/ FetchConstituentsFails
    \/ BuildUniverse
    \/ DownloadHistory
    \/ TechnicalPhase
    \/ EnrichRaises
    \/ Enrich
    \/ Finish

Spec == Init /\ [][Next]_vars

-----------------------------------------------------------------------------
(* The scorer on its own: _score_buy_row applied to one row *)

\* The columns _score_buy_row reads.
SignalFields == {"pe", "pb", "ev_ebitda", "revenue_cagr_3y", "eps_cagr_3y", "roe", "roce",
                 "debt_to_equity", "interest_coverage", "promoter_change_qoq_pct_pts",
                 "price_above_200d", "sma50_above_200d", "within_pct_52w_high", "rsi14",
                 "volume_mult_vs_50d"}

\* The two boolean columns among them.
BooleanFields == {"price_above_200d", "sma50_above_200d"}

\* A row whose every signal meets the default thresholds.
AllGoodRow ==
    [ ticker |-> 1, market_cap |-> 2000,
      pe |-> 200, pb |-> 30, ev_ebitda |-> 100, revenue_cagr_3y |-> 150,
      eps_cagr_3y |-> 150, roe |-> 200, roce |-> 200, debt_to_equity |-> 5,
      interest_coverage |-> 50, promoter_change_qoq_pct_pts |-> 10,
      price_above_200d |-> 1, sma50_above_200d |-> 1, within_pct_52w_high |-> 50,
      rsi14 |-> 600, volume_mult_vs_50d |-> 20 ]

\* A row whose every signal misses the default thresholds.
AllBadRow ==
    [ ticker |-> 1, market_cap |-> 2000,
      pe |-> 400, pb |-> 70, ev_ebitda |-> 250, revenue_cagr_3y |-> 50,
      eps_cagr_3y |-> 50, roe |-> 50, roce |-> 50, debt_to_equity |-> 20,
      interest_coverage |-> 10, promoter_change_qoq_pct_pts |-> -10,
      price_above_200d |-> 0, sma50_above_200d |-> 0, within_pct_52w_high |-> 150,
      rsi14 |-> 800, volume_mult_vs_50d |-> 10 ]

\* A row without any value.
AllNoneRow == [ col \in DOMAIN AllGoodRow |-> IF col = "ticker" THEN 1 ELSE None ]

\* The cells a column of a scored row can hold: nothing, a value that meets
\* the default threshold, one that misses it and, in a numeric column, NaN and 0.
CellValues(col) ==
    {None, AllGoodRow[col], AllBadRow[col]}
        \cup (IF col \in BooleanFields THEN {} ELSE {NaN, 0})

\* Rows handed to the scorer: the all-good and the no-value row, each with one
\* cell replaced.
ScoreRows ==
    UNION { { [base EXCEPT ![col] = v] : base \in {AllGoodRow, AllNoneRow}, v \in CellValues(col) } :
            col \in SignalFields }

\* Configurations handed to the scorer: the default thresholds or minimums of
\* zero, with max_ev_ebitda 20, 0 or unset.
ScoreConfigs ==
    { [c EXCEPT !.max_ev_ebitda = ev] :
        c \in { DEFAULT_CONFIG,
                [DEFAULT_CONFIG EXCEPT !.min_pe = 0, !.min_revenue_cagr_3y = 0,
                                       !.min_eps_cagr_3y = 0, !.min_roe = 0, !.min_roce = 0,
                                       !.min_interest_coverage = 0,
                                       !.min_promoter_change_qoq_pct_pts = 0,
                                       !.rsi_min = 0, !.min_volume_multiple_vs_50d = 0] },
        ev \in {200, 0, None} }

InitScore ==
    /\ pc = "score"
    /\ error = "none"
    /\ index_name = "nifty50"
    /\ limit = None
    /\ attempt = 1
    /\ sleeps = 0
    /\ http_requests = 0
    /\ cfg \in ScoreConfigs
    /\ for_buy = TRUE
    /\ symbols = <<>>
    /\ hist_all = <<>>
    /\ downloads = <<>>
    /\ tech_rows = <<>>
    /\ df \in {<<row>> : row \in ScoreRows}
    /\ symbols_for_funda = <<>>
    /\ enriched_rows = <<>>
    /\ funda_calls = <<>>
    /\ promoter_calls = <<>>
    /\ out = <<>>
    /\ frame = <<>>
    /\ last = <<>>

\* scores = df.apply(lambda r: _score_buy_row(r, cfg), axis=1); df.assign(score=scores)
ScoreRow ==
    /\ pc = "score"
    /\ out' = AssignScore(df, cfg)
    /\ pc' = "scored"
    /\ UNCHANGED <<error, index_name, limit, attempt, sleeps, http_requests, cfg,
                   for_buy, symbols, hist_all, downloads, tech_rows, df,
                   symbols_for_funda, enriched_rows, funda_calls, promoter_calls>>
    /\ UNCHANGED <<frame, last>>

NextScore == ScoreRow

SpecScore == InitScore /\ [][NextScore]_vars

-----------------------------------------------------------------------------
(* The indicator engine on its own: compute_technical_snapshot on one frame *)

\* Longest price frame, in rows.
MaxCloses == 201

Shapes == {"flat", "rising", "falling", "swing", "dip", "gaps"}

\* The close of row i: a flat series, a strictly rising one, a strictly
\* falling one, one that moves both ways every few rows, a rising one with a
\* drop every 20th row, and one with a missing close every 4th row.
CloseAt(shape, i) ==
    CASE shape = "flat" -> 100
      [] shape = "rising" -> 100 + i
      [] shape = "falling" -> 1000 - i
      [] shape = "swing" -> 100 + 3 * (i % 2) + (i % 5)
      [] shape = "dip" -> 100 + i - (IF i % 20 = 0 THEN 5 ELSE 0)
      [] shape = "gaps" -> IF i % 4 = 0 THEN NaN ELSE 100 + (i % 3)

\* A frame of n rows with columns Close, High, Low, Volume.
PriceFrame(shape, n) ==
    [ Close |-> [i \in 1..n |-> CloseAt(shape, i)],
      High |-> [i \in 1..n |-> IF IsNa(CloseAt(shape, i)) THEN NaN ELSE CloseAt(shape, i) + 2],
      Low |-> [i \in 1..n |-> IF IsNa(CloseAt(shape, i)) THEN NaN ELSE CloseAt(shape, i) - 2],
      Volume |-> [i \in 1..n |-> 1000 + 100 * (i % 3)] ]

InitSnapshot ==
    /\ pc = "frame"
    /\ error = "none"
    /\ index_name = "nifty50"
    /\ limit = None
    /\ attempt = 1
    /\ sleeps = 0
    /\ http_requests = 0
    /\ cfg = DEFAULT_CONFIG
    /\ for_buy = TRUE
    /\ symbols = <<>>
    /\ hist_all = <<>>
    /\ downloads = <<>>
    /\ tech_rows = <<>>
    /\ df = <<>>
    /\ symbols_for_funda = <<>>
    /\ enriched_rows = <<>>
    /\ funda_calls = <<>>
    /\ promoter_calls = <<>>
    /\ out = <<>>
    /\ frame \in {PriceFrame(shape, n) : shape \in Shapes, n \in 1..MaxCloses}
    /\ last = <<>>

\* compute_technical_snapshot(df) on a non-empty frame.
ComputeSnapshot ==
    /\ pc = "frame"
    /\ last' = compute_technical_snapshot(LastRowStats(frame))
    /\ pc' = "snapshot"
    /\ UNCHANGED <<error, index_name, limit, attempt, sleeps, http_requests, cfg,
                   for_buy, symbols, hist_all, downloads, tech_rows, df,
                   symbols_for_funda, enriched_rows, funda_calls, promoter_calls,
                   out, frame>>

NextSnapshot == ComputeSnapshot

SpecSnapshot == InitSnapshot /\ [][NextSnapshot]_vars

-----------------------------------------------------------------------------
(* Properties *)

Tickers(rows) == [k \in 1..Len(rows) |-> rows[k].ticker]

TickerSet(rows) == {rows[k].ticker : k \in 1..Len(rows)}

\* A cell holds a value (it is neither None nor NaN).
Known(x) == x # None /\ x # NaN

\* run_screen is past the technical phase (rows built, prefilter and cap applied).
TechnicalPhaseDone == pc \in {"enrich", "done"} \/ (pc = "raised" /\ error = "ProviderError")

\* The fundamentals cap lets every input symbol through.
CapCoversAll ==
    cfg.fundamentals_max_symbols = None \/ cfg.fundamentals_max_symbols >= Len(symbols)

\* A technical field of the row is known and misses its configured requirement.
TechKnownViolation(row, c) ==
    \/ c.price_above_200d /\ Known(row.price_above_200d) /\ row.price_above_200d # 1
    \/ c.sma50_above_200d /\ Known(row.sma50_above_200d) /\ row.sma50_above_200d # 1
    \/ Known(row.within_pct_52w_high) /\ row.within_pct_52w_high > c.within_pct_52w_high
    \/ Known(row.rsi14) /\ (row.rsi14 < c.rsi_min \/ row.rsi14 > c.rsi_max)
    \/ Known(row.volume_mult_vs_50d) /\ row.volume_mult_vs_50d < c.min_volume_multiple_vs_50d

\* A fundamental or promoter field of the row is known and misses its threshold.
FundaKnownViolation(row, c) ==
    \/ Known(row.pe) /\ (row.pe < c.min_pe \/ row.pe > c.max_pe)
    \/ Known(row.pb) /\ row.pb > c.max_pb
    \/ c.max_ev_ebitda # None /\ Known(row.ev_ebitda) /\ row.ev_ebitda > c.max_ev_ebitda
    \/ Known(row.revenue_cagr_3y) /\ row.revenue_cagr_3y < c.min_revenue_cagr_3y
    \/ Known(row.eps_cagr_3y) /\ row.eps_cagr_3y < c.min_eps_cagr_3y
    \/ Known(row.roe) /\ row.roe < c.min_roe
    \/ Known(row.roce) /\ row.roce < c.min_roce
    \/ Known(row.debt_to_equity) /\ row.debt_to_equity > c.max_debt_to_equity
    \/ Known(row.interest_coverage) /\ row.interest_coverage < c.min_interest_coverage
    \/ Known(row.promoter_change_qoq_pct_pts)
          /\ row.promoter_change_qoq_pct_pts < c.min_promoter_change_qoq_pct_pts

\* C1: in buy mode no row is excluded because of an unknown field: every row
\* the prefilter drops has a known technical field that misses its requirement,
\* and every row the hard filter drops has a known field that misses its
\* threshold; so a row without a price series survives both filters.
C1_UnknownNeverExcludes ==
    for_buy =>
       /\ TechnicalPhaseDone =>
             \A k \in 1..Len(tech_rows) :
                tech_rows[k].ticker \notin TickerSet(df) =>
                   TechKnownViolation(tech_rows[k], cfg)
       /\ pc = "done" =>
             LET candidates == EnrichedOrTech(enriched_rows, tech_rows) IN
             \A k \in 1..Len(candidates) :
                candidates[k].ticker \notin TickerSet(out) =>
                   \/ TechKnownViolation(candidates[k], cfg)
                   \/ FundaKnownViolation(candidates[k], cfg)

\* C2 as stated: in sell mode, whatever the fundamentals cap, the output has one
\* row for every input symbol and each of them was enriched.
C2_SellModeKeepsEverySymbol ==
    (pc = "done" /\ ~for_buy) =>
       /\ Len(out) = Len(symbols)
       /\ TickerSet(out) = Range(symbols)
       /\ TickerSet(out) \subseteq TickerSet(enriched_rows)

\* C2 as amended: in sell mode, when the fundamentals cap is unset or at least
\* the number of input symbols, the output has one row for every input symbol
\* and each of them was enriched.
C2_SellModeKeepsEverySymbolWithinCap ==
    (pc = "done" /\ ~for_buy /\ CapCoversAll) =>
       /\ Len(out) = Len(symbols)
       /\ TickerSet(out) = Range(symbols)
       /\ TickerSet(out) \subseteq TickerSet(enriched_rows)

\* C2 witness: a finished sell-mode run over the whole universe, with no cap,
\* whose output keeps a row that misses a hard-filter threshold.
C2_Witness ==
    /\ pc = "done" /\ ~for_buy /\ CapCoversAll
    /\ Len(symbols) = MaxSymbols /\ Len(out) = MaxSymbols
    /\ \E k \in 1..Len(out) : FundaKnownViolation(out[k], cfg)

\* C3: a failure of the fundamentals fetch or of the promoter fetch never ends
\* the run: run_screen does not raise once enrichment has started, and every
\* symbol handed to the fundamentals provider gets its row.
C3_EnrichmentFailureIsolated ==
    /\ ~(pc = "raised" /\ funda_calls # <<>>)
    /\ pc \in {"enrich", "done"} => Len(enriched_rows) = Len(funda_calls)

SurvivorsInInputOrder ==
    LET survives(t) == t \in TickerSet(df) IN SelectSeq(symbols, survives)

\* C5: with fundamentals_max_symbols set, the enrichment list has at most that
\* many entries and is the leading prefix of the prefilter survivors in input
\* order.
C5_CapTakesLeadingPrefix ==
    (TechnicalPhaseDone /\ cfg.fundamentals_max_symbols # None) =>
       /\ Len(symbols_for_funda) <= cfg.fundamentals_max_symbols
       /\ Len(symbols_for_funda) <= Len(SurvivorsInInputOrder)
       /\ symbols_for_funda = SubSeq(SurvivorsInInputOrder, 1, Len(symbols_for_funda))
       /\ \/ Len(symbols_for_funda) = cfg.fundamentals_max_symbols
          \/ Len(symbols_for_funda) = Len(SurvivorsInInputOrder)

\* C5 witness: two symbols survive the prefilter and the cap of 1 keeps the first.
C5_Witness ==
    /\ TechnicalPhaseDone /\ cfg.fundamentals_max_symbols = 1
    /\ Len(df) >= 2
    /\ symbols_for_funda = <<symbols[1]>>

\* C6: the fundamentals and promoter providers are called for a symbol only
\* after the technical rows of all input symbols are built and the prefilter is
\* applied, only for symbols within the fundamentals cap and, in buy mode, only
\* for symbols whose technical row passes the prefilter.
C6_EnrichOnlyAfterPrefilter ==
    \A t \in Range(funda_calls) \cup Range(promoter_calls) :
       /\ TechnicalPhaseDone
       /\ Len(downloads) = Len(symbols)
       /\ Tickers(tech_rows) = symbols
       /\ for_buy => \E k \in 1..Len(tech_rows) :
                        /\ tech_rows[k].ticker = t
                        /\ ~TechKnownViolation(tech_rows[k], cfg)
                        /\ cfg.price_above_200d => tech_rows[k].price_above_200d = 1
                        /\ cfg.sma50_above_200d => tech_rows[k].sma50_above_200d = 1
       /\ \E k \in 1..Len(SurvivorsInInputOrder) :
             /\ SurvivorsInInputOrder[k] = t
             /\ cfg.fundamentals_max_symbols # None => k <= cfg.fundamentals_max_symbols

\* C6 witness: a finished buy-mode run in which one symbol was enriched and
\* another, rejected by the prefilter, was not.
C6_Witness ==
    /\ pc = "done" /\ for_buy
    /\ funda_calls # <<>> /\ promoter_calls # <<>>
    /\ \E t \in Range(symbols) : t \notin TickerSet(df) /\ t \notin Range(funda_calls)

\* The value is unknown or within [lo, hi].
UnknownOrBetween(x, lo, hi) == ~Known(x) \/ (lo <= x /\ x <= hi)
UnknownOrAtMost(x, hi) == ~Known(x) \/ x <= hi
UnknownOrAtLeast(x, lo) == ~Known(x) \/ x >= lo

\* C7: in buy mode every output row has each hard-filter field unknown or
\* within its threshold; the same row is retained in sell mode, where every
\* enriched row is output.
C7_OutputWithinThresholds ==
    /\ (pc = "done" /\ for_buy) =>
          \A k \in 1..Len(out) :
             /\ UnknownOrBetween(out[k].pe, cfg.min_pe, cfg.max_pe)
             /\ UnknownOrAtMost(out[k].pb, cfg.max_pb)
             /\ cfg.max_ev_ebitda # None => UnknownOrAtMost(out[k].ev_ebitda, cfg.max_ev_ebitda)
             /\ UnknownOrAtLeast(out[k].revenue_cagr_3y, cfg.min_revenue_cagr_3y)
             /\ UnknownOrAtLeast(out[k].eps_cagr_3y, cfg.min_eps_cagr_3y)
             /\ UnknownOrAtLeast(out[k].roe, cfg.min_roe)
             /\ UnknownOrAtLeast(out[k].roce, cfg.min_roce)
             /\ UnknownOrAtMost(out[k].debt_to_equity, cfg.max_debt_to_equity)
             /\ UnknownOrAtLeast(out[k].interest_coverage, cfg.min_interest_coverage)
             /\ UnknownOrAtLeast(out[k].promoter_change_qoq_pct_pts,
                                 cfg.min_promoter_change_qoq_pct_pts)
    /\ (pc = "done" /\ ~for_buy) => TickerSet(enriched_rows) \subseteq TickerSet(out)

\* C7 witness: a finished buy-mode run that enriched a row with PE 40 and left
\* it out, while keeping another row whose PE is known.
C7_Witness ==
    /\ pc = "done" /\ for_buy
    /\ \E k \in 1..Len(enriched_rows) :
          enriched_rows[k].pe = 400 /\ enriched_rows[k].ticker \notin TickerSet(out)
    /\ \E k \in 1..Len(out) : Known(out[k].pe)

\* Weight of a signal that is available and meets its favourable threshold.
Weight(met, w) == IF met THEN w ELSE 0

\* The score C8 describes, in tenths: the sum of the weights of the signals
\* that are available (known) and meet their threshold.
SumOfMetSignals(row, c) ==
      Weight(Known(row.pe) /\ c.min_pe <= row.pe /\ row.pe <= c.max_pe, 10)
    + Weight(Known(row.pb) /\ row.pb <= c.max_pb, 10)
    + Weight(Known(row.ev_ebitda) /\ c.max_ev_ebitda # None
                /\ row.ev_ebitda <= c.max_ev_ebitda, 10)
    + Weight(Known(row.revenue_cagr_3y) /\ row.revenue_cagr_3y >= c.min_revenue_cagr_3y, 10)
    + Weight(Known(row.eps_cagr_3y) /\ row.eps_cagr_3y >= c.min_eps_cagr_3y, 10)
    + Weight(Known(row.roe) /\ row.roe >= c.min_roe, 10)
    + Weight(Known(row.roce) /\ row.roce >= c.min_roce, 10)
    + Weight(Known(row.debt_to_equity) /\ row.debt_to_equity <= c.max_debt_to_equity, 10)
    + Weight(Known(row.interest_coverage)
                /\ row.interest_coverage >= c.min_interest_coverage, 10)
    + Weight(Known(row.promoter_change_qoq_pct_pts)
                /\ row.promoter_change_qoq_pct_pts >= c.min_promoter_change_qoq_pct_pts, 10)
    + Weight(Known(row.price_above_200d) /\ row.price_above_200d = 1, 10)
    + Weight(Known(row.sma50_above_200d) /\ row.sma50_above_200d = 1, 10)
    + Weight(Known(row.within_pct_52w_high)
                /\ row.within_pct_52w_high <= c.within_pct_52w_high, 10)
    + Weight(Known(row.rsi14) /\ c.rsi_min <= row.rsi14 /\ row.rsi14 <= c.rsi_max, 5)
    + Weight(Known(row.volume_mult_vs_50d)
                /\ row.volume_mult_vs_50d >= c.min_volume_multiple_vs_50d, 5)

\* C8: _score_buy_row returns exactly the sum of the weights of the signals
\* that are available and meet their threshold, zero-valued cells and a
\* max_ev_ebitda of 0 included.
C8_ScoreIsSumOfMetSignals ==
    pc = "scored" => out[1].score = SumOfMetSignals(df[1], cfg)

\* C9: the output is ordered by score descending, ties by market cap
\* descending, unknown market caps last within a tie: for consecutive rows a, b
\* either score(a) > score(b), or the scores are equal and market_cap(b) is
\* unknown or both are known and market_cap(a) >= market_cap(b).
C9_OutputOrdered ==
    pc = "done" =>
       \A k \in 1..(Len(out) - 1) :
          \/ out[k].score > out[k + 1].score
          \/ /\ out[k].score = out[k + 1].score
             /\ \/ ~Known(out[k + 1].market_cap)
                \/ /\ Known(out[k].market_cap)
                   /\ Known(out[k + 1].market_cap)
                   /\ out[k].market_cap >= out[k + 1].market_cap

\* C9 witness: the sort moved a later input symbol ahead of an earlier one, on
\* a higher score or on a larger or known market cap within a tie.
C9_Witness ==
    /\ pc = "done"
    /\ \E k \in 1..(Len(out) - 1) :
          /\ out[k].ticker > out[k + 1].ticker
          /\ out[k].score = out[k + 1].score
          /\ Known(out[k].market_cap)

\* C10: build_universe with an unrecognised index name fails at once: no
\* second attempt, no backoff wait, no request for a constituent list and no
\* per-symbol fetch, and the run has ended after the first attempt.
C10_UnsupportedIndexFailsImmediately ==
    Upper(index_name) \notin NIFTY_CSV_URLS =>
       /\ attempt = 1 /\ sleeps = 0
       /\ http_requests = 0 /\ downloads = <<>> /\ funda_calls = <<>>

\* C11: a retried external call stops after its bounded number of attempts,
\* and when every attempt fails on a transient failure of the data source the
\* exhaustion is not raised: with a supported index name the run never ends
\* with the retry policy's error.
C11_RetryExhaustionNotRaised ==
    /\ attempt <= UniverseStopAfterAttempt
    /\ Upper(index_name) \in NIFTY_CSV_URLS => ~(pc = "raised" /\ error = "RetryError")

\* The closes compute_technical_snapshot works on (Close without missing values).
Closes == Dropna(frame.Close)

\* C12 as stated: with exactly 199 closes sma200 is unknown and sma50 known;
\* sma50 is known from 25 closes on, and sma200 is unknown whenever fewer than
\* 200 closes exist.
C12_Sma200NeedsFullWindow ==
    pc = "snapshot" =>
       /\ Len(Closes) = 199 => IsNa(last.sma200) /\ Known(last.sma50)
       /\ Len(Closes) >= 25 => Known(last.sma50)
       /\ Len(Closes) < 200 => IsNa(last.sma200)

\* x is the mean of the series s, rounded down.
IsMeanOf(x, s) == x * Len(s) <= SeriesSum(s) /\ SeriesSum(s) < (x + 1) * Len(s)

\* C12 (amended): each moving average is known exactly when at least half its
\* window of closes exists (25 for sma50, 100 for sma200), so with 199 closes
\* both are known; a known average is the mean of the closes in its trailing
\* window.
C12_SmaKnownFromHalfWindow ==
    pc = "snapshot" =>
       /\ Len(Closes) = 199 => Known(last.sma200) /\ Known(last.sma50)
       /\ Known(last.sma50) <=> Len(Closes) >= 25
       /\ Known(last.sma200) <=> Len(Closes) >= 100
       /\ Known(last.sma50) => IsMeanOf(last.sma50, TailRows(Closes, 50))
       /\ Known(last.sma200) => IsMeanOf(last.sma200, TailRows(Closes, 200))

\* A snapshot of a frame with exactly 199 closes whose sma200 is known.
C12_Witness ==
    pc = "snapshot" /\ Len(Closes) = 199 /\ Known(last.sma200) /\ Known(last.sma50)

\* The last k day-over-day deltas of a series of more than k closes, and the
\* total gain and total loss among them.
LastDeltas(s, k) == [i \in 1..k |-> s[Len(s) - k + i] - s[Len(s) - k + i - 1]]
GainOf(d) == SeriesSum([i \in 1..Len(d) |-> IF d[i] > 0 THEN d[i] ELSE 0])
LossOf(d) == SeriesSum([i \in 1..Len(d) |-> IF d[i] < 0 THEN 0 - d[i] ELSE 0])

\* C13: the RSI(14) of the last row is unknown when fewer than 14 deltas exist
\* or when the loss over the last 14 deltas is zero (a flat series, a strictly
\* rising series); otherwise it is known, equals 100 * gain / (gain + loss)
\* (in tenths, rounded down) and lies within [0, 100].
C13_RsiUnknownOrRatio ==
    pc = "snapshot" =>
       IF Len(Closes) - 1 < 14 THEN IsNa(last.rsi14)
       ELSE LET gain == GainOf(LastDeltas(Closes, 14))
                loss == LossOf(LastDeltas(Closes, 14))
            IN  IF loss = 0 THEN IsNa(last.rsi14)
                ELSE /\ Known(last.rsi14)
                     /\ last.rsi14 * (gain + loss) <= 1000 * gain
                     /\ 1000 * gain < (last.rsi14 + 1) * (gain + loss)
                     /\ 0 <= last.rsi14 /\ last.rsi14 <= 1000

\* A snapshot of a series whose last 14 deltas hold gains and no loss: the RSI
\* is unknown, not 100.
C13_Witness ==
    /\ pc = "snapshot"
    /\ Len(Closes) - 1 >= 14
    /\ GainOf(LastDeltas(Closes, 14)) > 0
    /\ LossOf(LastDeltas(Closes, 14)) = 0
    /\ IsNa(last.rsi14)

\* A snapshot whose RSI is defined and strictly between 0 and 100.
C13_DefinedWitness ==
    pc = "snapshot" /\ Known(last.rsi14) /\ 0 < last.rsi14 /\ last.rsi14 < 1000

\* The known value v of signal col meets its favourable threshold under c.
Meets(col, v, c) ==
    CASE col = "pe" -> c.min_pe <= v /\ v <= c.max_pe
      [] col = "pb" -> v <= c.max_pb
      [] col = "ev_ebitda" -> c.max_ev_ebitda # None /\ v <= c.max_ev_ebitda
      [] col = "revenue_cagr_3y" -> v >= c.min_revenue_cagr_3y
      [] col = "eps_cagr_3y" -> v >= c.min_eps_cagr_3y
      [] col = "roe" -> v >= c.min_roe
      [] col = "roce" -> v >= c.min_roce
      [] col = "debt_to_equity" -> v <= c.max_debt_to_equity
      [] col = "interest_coverage" -> v >= c.min_interest_coverage
      [] col = "promoter_change_qoq_pct_pts" -> v >= c.min_promoter_change_qoq_pct_pts
      [] col = "price_above_200d" -> v = 1
      [] col = "sma50_above_200d" -> v = 1
      [] col = "within_pct_52w_high" -> v <= c.within_pct_52w_high
      [] col = "rsi14" -> c.rsi_min <= v /\ v <= c.rsi_max
      [] col = "volume_mult_vs_50d" -> v >= c.min_volume_multiple_vs_50d

\* The known values a signal is replaced by.
KnownValues(col) == {v \in CellValues(col) : Known(v)}

\* C14: for the scored row and every signal that is unknown in it, replacing
\* the unknown by a known value that meets the threshold never gives a lower
\* score, and by a known value that misses it never a higher one; the score
\* lies between 0 and 14.
C14_ScoreMonotoneAndBounded ==
    pc = "scored" =>
       /\ 0 <= out[1].score /\ out[1].score <= 140
       /\ \A col \in SignalFields :
             IsNa(df[1][col]) =>
                \A v \in KnownValues(col) :
                   LET replaced == _score_buy_row([df[1] EXCEPT ![col] = v], cfg) IN
                   /\ Meets(col, v, cfg) => replaced >= out[1].score
                   /\ ~Meets(col, v, cfg) => replaced <= out[1].score

\* A scored row with an unknown signal whose score rises when the signal
\* becomes known and meets its threshold.
C14_Witness ==
    /\ pc = "scored"
    /\ \E col \in SignalFields :
          /\ IsNa(df[1][col])
          /\ \E v \in KnownValues(col) :
                /\ Meets(col, v, cfg)
                /\ _score_buy_row([df[1] EXCEPT ![col] = v], cfg) > out[1].score

\* C15: the prefilter applied to the rows the prefilter retained (df) removes
\* no row, and the hard filter applied to the rows the hard filter retained
\* (the output) removes no row.
C15_FiltersIdempotent ==
    /\ TechnicalPhaseDone => Prefilter(df, cfg, for_buy) = df
    /\ pc = "done" => HardFilter(out, cfg, for_buy) = out

\* A finished buy-mode run in which the filters removed a row and retained one.
C15_Witness ==
    /\ pc = "done" /\ for_buy
    /\ df # <<>> /\ out # <<>>
    /\ Len(out) < Len(tech_rows)

\* C16: every row of the output of a finished run belongs to a symbol of
\* symbols_for_funda, so with fundamentals_max_symbols set the output has at
\* most that many rows, a cap of 0 included.
C16_OutputWithinEnrichmentList ==
    pc = "done" =>
       /\ TickerSet(out) \subseteq Range(symbols_for_funda)
       /\ cfg.fundamentals_max_symbols # None =>
             Len(out) <= cfg.fundamentals_max_symbols

\* C17: in buy mode every ticker of the output of a finished run is the ticker
\* of a row the prefilter retained (df), also when no symbol was enriched and
\* the hard filter ran on the unenriched technical rows.
C17_OutputPassedPrefilter ==
    pc = "done" /\ for_buy => TickerSet(out) \subseteq TickerSet(df)

\* A finished buy-mode run without any enriched row whose output is not empty,
\* although the prefilter rejected one of the technical rows the hard filter
\* ran on.
C17_Witness ==
    /\ pc = "done" /\ for_buy
    /\ enriched_rows = <<>>
    /\ out # <<>>
    /\ TickerSet(df) # TickerSet(tech_rows)

=============================================================================
